---- MODULE Spec2Model ----
(***************************************************************************)
(* A model of the scanned-document to Markdown/LaTeX converter:            *)
(*   - the LaTeX normaliser, OCR response parser and page assembler of     *)
(*     transcribeImage (services/geminiService),                           *)
(*   - the region cropper cropImageFromBase64 (services/fileProcessing),   *)
(*   - the binary exporter generateDocx (utils/docxExport) and the          *)
(*     clipboard exporter copyToClipboard,                                 *)
(*   - the App component's state and its handlers (App.tsx).               *)
(*                                                                         *)
(* Text is a sequence of tokens.  A token is a record: Ch(c) is a piece of *)
(* plain text (one character, or one of the multi-character lexemes the    *)
(* regular expressions of the code look for, such as \( or \angle), Js(v)  *)
(* is the text of one complete JSON value v, Img(d) is one Markdown image  *)
(* reference whose base64 payload is d.                                    *)
(***************************************************************************)
EXTENDS Integers, Sequences, FiniteSets, TLC

VARIABLES
    files,            \* AppState.files
    isProcessing,     \* AppState.isProcessing
    processedPages,   \* AppState.processedPages
    error,            \* AppState.error
    runs,             \* the invocations of handleProcess: their locals and position
    apiKey,           \* whether process.env.API_KEY is set
    normCall,         \* a call of the LaTeX normaliser: input, result, result of a second pass
    ocrCall,          \* a call of transcribeImage: inputs and outcome
    docxImage,        \* an image line met by generateDocx: measured size and inserted size
    exportCall        \* an export of the Document: its snapshot of the pages and its outcome

vars == <<files, isProcessing, processedPages, error, runs, apiKey,
          normCall, ocrCall, docxImage, exportCall>>

appVars == <<files, isProcessing, processedPages, error, runs, apiKey>>

fnVars == <<normCall, ocrCall, docxImage, exportCall>>

\* The value of a variable that a specification does not use.
Idle == [step |-> "idle"]

\* AppState.error: null, or the message of the error that ended a run.
NoError == [set |-> FALSE]
Error(msg) == [set |-> TRUE, message |-> msg]

\* The state App is constructed with (useState), before any handler has run.
AppStart ==
    /\ files = <<>> /\ isProcessing = FALSE /\ processedPages = <<>> /\ error = NoError
    /\ runs = <<>>

-----------------------------------------------------------------------------
(* Bounds of the model *)

MaxLen == 4        \* longest text given to the normaliser
MaxParts == 3      \* longest parts list of an OCR response
MaxText == 4       \* longest raw response text checked token by token
MaxPages == 2      \* most pages of a PDF
MaxRuns == 2       \* most invocations of handleProcess in a behaviour

-----------------------------------------------------------------------------
(* Tokens and strings *)

Ch(c) == [t |-> "ch", c |-> c]
Js(v) == [t |-> "js", j |-> v]
Img(d) == [t |-> "img", data |-> d]

IsCh(tok, c) == tok.t = "ch" /\ tok.c = c

\* The string of the characters cs, a sequence of TLA+ strings.
Str(cs) == [i \in 1..Len(cs) |-> Ch(cs[i])]

\* All sequences over S of length at most n.
SeqsUpTo(S, n) == UNION {[1..k -> S] : k \in 0..n}

Drop(s, n) == SubSeq(s, n + 1, Len(s))

\* \s of the regular expressions.
IsSpace(tok) == tok.t = "ch" /\ tok.c \in {" ", "\n"}

\* [A-Z] of the regular expressions.
IsUpper(tok) == tok.t = "ch" /\ tok.c \in {"A", "B", "C"}

\* The index of the first tok in s at or after from, 0 when there is none.
FirstAt(s, c, from) ==
    LET hits == {i \in from..Len(s) : IsCh(s[i], c)}
    IN IF hits = {} THEN 0 ELSE CHOOSE i \in hits : \A j \in hits : i <= j

\* The number of leading whitespace tokens of s.
RECURSIVE SpaceRun(_)
SpaceRun(s) == IF s # <<>> /\ IsSpace(Head(s)) THEN 1 + SpaceRun(Tail(s)) ELSE 0

-----------------------------------------------------------------------------
(* LaTeX normaliser: the four rewrites of transcribeImage *)

\* s.replace(/open([\s\S]*?)close/g, repl + "$1" + repl): every leftmost,
\* shortest open..close span, left to right, none overlapping.
RECURSIVE ReplaceDelims(_, _, _, _)
ReplaceDelims(s, open, close, repl) ==
    LET p == FirstAt(s, open, 1) IN
    IF p = 0 THEN s
    ELSE LET q == FirstAt(s, close, p + 1) IN
         IF q = 0 THEN s
         ELSE SubSeq(s, 1, p - 1) \o repl \o SubSeq(s, p + 1, q - 1) \o repl
              \o ReplaceDelims(Drop(s, q), open, close, repl)

\* The length of the match of /\\angle\s*\{?([A-Z]{3})\}?/ at the head of s, 0
\* for no match, and the position of its first letter.
WideLetters(s) ==
    LET a == 1 + SpaceRun(Tail(s))
        b == IF a < Len(s) /\ IsCh(s[a + 1], "{") THEN a + 1 ELSE a
    IN b + 1

WideMatch(s) ==
    IF s = <<>> \/ ~IsCh(Head(s), "\\angle") THEN 0
    ELSE LET l == WideLetters(s) IN
         IF l + 2 <= Len(s) /\ IsUpper(s[l]) /\ IsUpper(s[l + 1]) /\ IsUpper(s[l + 2])
         THEN IF l + 3 <= Len(s) /\ IsCh(s[l + 3], "}") THEN l + 3 ELSE l + 2
         ELSE 0

\* s.replace(/\\angle\s*\{?([A-Z]{3})\}?/g, '\\widehat{$1}')
RECURSIVE ReplaceWide(_)
ReplaceWide(s) ==
    IF s = <<>> THEN <<>>
    ELSE LET m == WideMatch(s)
             l == WideLetters(s)
         IN IF m > 0
            THEN <<Ch("\\widehat"), Ch("{"), s[l], s[l + 1], s[l + 2], Ch("}")>>
                 \o ReplaceWide(Drop(s, m))
            ELSE <<Head(s)>> \o ReplaceWide(Tail(s))

\* The length of the match of /\\angle\s*\{?([A-Z])\}?(?![A-Z])/ at the head of
\* s, 0 for no match.  The optional closing brace is taken when the lookahead
\* then succeeds; otherwise the match ends before it (a brace is no letter).
HatMatch(s) ==
    IF s = <<>> \/ ~IsCh(Head(s), "\\angle") THEN 0
    ELSE LET l == WideLetters(s) IN
         IF l <= Len(s) /\ IsUpper(s[l])
         THEN IF l + 1 <= Len(s) /\ IsCh(s[l + 1], "}")
              THEN IF l + 2 <= Len(s) /\ IsUpper(s[l + 2]) THEN l ELSE l + 1
              ELSE IF l + 1 <= Len(s) /\ IsUpper(s[l + 1]) THEN 0 ELSE l
         ELSE 0

\* s.replace(/\\angle\s*\{?([A-Z])\}?(?![A-Z])/g, '\\hat{$1}')
RECURSIVE ReplaceHat(_)
ReplaceHat(s) ==
    IF s = <<>> THEN <<>>
    ELSE LET m == HatMatch(s)
             l == WideLetters(s)
         IN IF m > 0
            THEN <<Ch("\\hat"), Ch("{"), s[l], Ch("}")>> \o ReplaceHat(Drop(s, m))
            ELSE <<Head(s)>> \o ReplaceHat(Tail(s))

\* The post-processing of a text part's content, in the order of the code.
Normalize(s) ==
    LET s1 == ReplaceDelims(s, "\\(", "\\)", Str(<<"$">>))
        s2 == ReplaceDelims(s1, "\\[", "\\]", Str(<<"$", "$">>))
        s3 == ReplaceWide(s2)
    IN ReplaceHat(s3)

\* The characters the normaliser is tried on.
LatexAlphabet ==
    {Ch(c) : c \in {"\\(", "\\)", "\\[", "\\]", "\\angle", "{", "}", " ", "A", "x"}}

-----------------------------------------------------------------------------
(* JSON values, as JSON.parse builds them and JavaScript reads them *)

JNull == [k |-> "null"]
JUndefined == [k |-> "undefined"]
JNum(n) == [k |-> "num", n |-> n]
JStr(s) == [k |-> "str", s |-> s]
JArr(items) == [k |-> "arr", items |-> items]
JObj(f) == [k |-> "obj", f |-> f]

NoFields == [x \in {} |-> JNull]

\* v.name: a property of null (or undefined) cannot be read, a TypeError.
CanRead(v) == v.k \notin {"null", "undefined"}

\* v.name for a value that can be read; undefined for a missing property and
\* for the properties of numbers and strings that the code asks for.
Get(v, name) ==
    IF v.k = "obj" /\ name \in DOMAIN v.f THEN v.f[name] ELSE JUndefined

\* JavaScript truthiness.
Truthy(v) ==
    CASE v.k \in {"null", "undefined"} -> FALSE
      [] v.k = "num" -> v.n # 0
      [] v.k = "str" -> v.s # <<>>
      [] OTHER -> TRUE

\* v === 'text', v === 'figure'
IsString(v, cs) == v.k = "str" /\ v.s = Str(cs)

RECURSIVE TrailingSpaces(_)
TrailingSpaces(s) ==
    IF s # <<>> /\ IsSpace(s[Len(s)]) THEN 1 + TrailingSpaces(SubSeq(s, 1, Len(s) - 1)) ELSE 0

\* JSON.parse(text): the text of one JSON value, with whitespace around it
\* allowed, gives the value; anything else is a SyntaxError.
Trim(text) ==
    LET rest == Drop(text, SpaceRun(text)) IN SubSeq(rest, 1, Len(rest) - TrailingSpaces(rest))

JsonParses(text) == Len(Trim(text)) = 1 /\ Trim(text)[1].t = "js"

JsonParse(text) == Trim(text)[1].j

\* jsonText.replace(/^<ticks>json\s*/, "").replace(/\s*<ticks>$/, ""), <ticks> being
\* the three backquotes of a code fence.
StripOpenFence(text) ==
    IF Len(text) >= 2 /\ IsCh(text[1], "<ticks>") /\ IsCh(text[2], "json")
    THEN Drop(text, 2 + SpaceRun(Drop(text, 2)))
    ELSE text

StripCloseFence(text) ==
    IF text # <<>> /\ IsCh(text[Len(text)], "<ticks>")
    THEN LET before == SubSeq(text, 1, Len(text) - 1)
         IN SubSeq(before, 1, Len(before) - TrailingSpaces(before))
    ELSE text

StripFences(text) == StripCloseFence(StripOpenFence(text))

-----------------------------------------------------------------------------
(* Region cropper: cropImageFromBase64 *)

\* The page raster: whether the browser can decode it, its pixel size, and
\* whether a 2d drawing context can be had for the crop.
GoodImage == [id |-> "page", decodable |-> TRUE, width |-> 200, height |-> 100, context |-> TRUE]

\* 1000 times the crop's width and height in pixels: x2 - x1 and y2 - y1 with
\* x = (xmin / 1000) * realWidth, the division kept exact.
CropWidth1000(img, box) == box[4] * img.width - box[2] * img.width
CropHeight1000(img, box) == box[3] * img.height - box[1] * img.height

\* if (width <= 0 || height <= 0): the code's test of an invalid box.
BoxIsEmpty(img, box) == CropWidth1000(img, box) <= 0 \/ CropHeight1000(img, box) <= 0

\* canvas.toDataURL(...).split(',')[1]: the JPEG of the canvas.  A canvas whose
\* width or height (the assigned number truncated to an integer) is 0 has the
\* data URL "data:,", whose payload is the empty string.
CanvasPayload(img, box) ==
    IF CropWidth1000(img, box) \div 1000 = 0 \/ CropHeight1000(img, box) \div 1000 = 0
    THEN <<>>
    ELSE <<[src |-> img.id, box |-> box]>>

\* The promise of cropImageFromBase64: resolved with a base64 payload (empty for
\* "no image") or rejected.
CropImage(img, box) ==
    IF ~img.decodable THEN [kind |-> "reject"]
    ELSE IF BoxIsEmpty(img, box) THEN [kind |-> "resolve", data |-> <<>>]
    ELSE IF ~img.context THEN [kind |-> "reject"]
    ELSE [kind |-> "resolve", data |-> CanvasPayload(img, box)]

\* const [ymin, xmin, ymax, xmax] = box, for a box_2d that is a list of numbers.
BoxOf(v) == [i \in 1..Len(v.items) |-> v.items[i].n]

-----------------------------------------------------------------------------
(* OCR response parser and page assembler: transcribeImage *)

Returned(md) == [kind |-> "ok", md |-> md]
Thrown(msg) == [kind |-> "throw", msg |-> msg]

BlankLine == Str(<<"\n", "\n">>)

\* The block a text part appends: its normalised content and a blank line.
TextBlock(content) == Normalize(content) \o BlankLine

\* The block a cropped figure appends: ![Figure](data:image/jpeg;base64,<payload>)
\* and a blank line.
FigureBlock(data) == <<Img(data)>> \o BlankLine

\* part.type === 'text' && part.content
IsTextPart(part) == IsString(Get(part, "type"), <<"t", "e", "x", "t">>) /\ Truthy(Get(part, "content"))

\* part.type === 'figure' && part.box_2d
IsFigurePart(part) ==
    IsString(Get(part, "type"), <<"f", "i", "g", "u", "r", "e">>) /\ Truthy(Get(part, "box_2d"))

\* What one iteration of the loop over data.parts appends to finalMarkdown; a
\* TypeError (reading a property of null, or calling replace on a content that is
\* no string) leaves the loop.
PartStep(img, part) ==
    IF ~CanRead(part) THEN Thrown("TypeError")
    ELSE IF IsTextPart(part)
    THEN IF Get(part, "content").k = "str"
         THEN Returned(TextBlock(Get(part, "content").s))
         ELSE Thrown("TypeError")
    ELSE IF IsFigurePart(part)
    THEN LET crop == CropImage(img, BoxOf(Get(part, "box_2d"))) IN
         IF crop.kind = "resolve" /\ crop.data # <<>>
         THEN Returned(FigureBlock(crop.data))
         ELSE Returned(<<>>)
    ELSE Returned(<<>>)

\* PartsLoop with each block put before the text gathered so far.
RECURSIVE PartsLoop_Prepending(_, _, _)
PartsLoop_Prepending(img, parts, md) ==
    IF parts = <<>> THEN Returned(md)
    ELSE LET step == PartStep(img, Head(parts)) IN
         IF step.kind = "throw" THEN step
         ELSE PartsLoop_Prepending(img, Tail(parts), step.md \o md)

\* for (const part of data.parts) { ... }, from finalMarkdown = md on.
RECURSIVE PartsLoop(_, _, _)
PartsLoop(img, parts, md) ==
    IF parts = <<>> THEN Returned(md)
    ELSE LET step == PartStep(img, Head(parts)) IN
         IF step.kind = "throw" THEN step
         ELSE PartsLoop(img, Tail(parts), md \o step.md)

\* ParseResponse with the raw response text returned on a parse failure.
ParseResponse_RawFallback(img, text) ==
    LET jsonText == StripFences(IF text = <<>> THEN <<Js(JObj(NoFields))>> ELSE text) IN
    IF ~JsonParses(jsonText) THEN Returned(text)
    ELSE LET data == JsonParse(jsonText) IN
         IF ~CanRead(data) THEN Thrown("TypeError")
         ELSE IF ~Truthy(Get(data, "parts")) \/ Get(data, "parts").k # "arr"
         THEN Returned(<<>>)
         ELSE PartsLoop(img, Get(data, "parts").items, <<>>)

\* The body of transcribeImage's try block once the backend has answered with
\* response.text = text.
ParseResponse(img, text) ==
    LET jsonText == StripFences(IF text = <<>> THEN <<Js(JObj(NoFields))>> ELSE text) IN
    IF ~JsonParses(jsonText) THEN Returned(jsonText)
    ELSE LET data == JsonParse(jsonText) IN
         IF ~CanRead(data) THEN Thrown("TypeError")
         ELSE IF ~Truthy(Get(data, "parts")) \/ Get(data, "parts").k # "arr"
         THEN Returned(<<>>)
         ELSE PartsLoop(img, Get(data, "parts").items, <<>>)

\* transcribeImage(base64Image, mimeType): hasKey is process.env.API_KEY, backend
\* the outcome of ai.models.generateContent.  An error of the try block is thrown
\* again as "Failed to process image: ...".
TranscribeImage(hasKey, backend, img) ==
    IF ~hasKey THEN Thrown("API Key is missing")
    ELSE IF backend.kind = "error" THEN Thrown("Failed to process image")
    ELSE LET r == ParseResponse(img, backend.text) IN
         IF r.kind = "throw" THEN Thrown("Failed to process image") ELSE r

-----------------------------------------------------------------------------
(* transcribeImage called on one page: the inputs the checks draw *)

TextType == JStr(Str(<<"t", "e", "x", "t">>))
FigureType == JStr(Str(<<"f", "i", "g", "u", "r", "e">>))

TextPart(content) == JObj([type |-> TextType, content |-> content])
FigurePart(box) ==
    JObj([type |-> FigureType, box_2d |-> JArr([i \in 1..4 |-> JNum(box[i])])])

\* Boxes [ymin, xmin, ymax, xmax]: a valid one, one too small to hold a pixel,
\* a degenerate one, an inverted one, a negative one, one above 1000.
ValidBox == <<0, 0, 500, 500>>
TinyBox == <<0, 0, 4, 4>>
DegenerateBox == <<500, 0, 500, 500>>
InvertedBox == <<500, 0, 0, 500>>
NegativeBox == <<-100, 0, 500, 500>>
AboveBox == <<0, 0, 500, 1200>>

Boxes == {ValidBox, TinyBox, DegenerateBox, InvertedBox, NegativeBox, AboveBox}

\* 0 <= yMin < yMax <= 1000 and 0 <= xMin < xMax <= 1000
BoxIsValid(box) ==
    /\ 0 <= box[1] /\ box[1] < box[3] /\ box[3] <= 1000
    /\ 0 <= box[2] /\ box[2] < box[4] /\ box[4] <= 1000

PlainContent == Str(<<"x">>)
MathContent == Str(<<"\\(", "x", "\\)">>)

\* Parts the response schema allows: a type, an optional string content, an
\* optional box of four integers.
SchemaParts ==
    {TextPart(JStr(c)) : c \in {PlainContent, MathContent, <<>>}}
    \cup {JObj([type |-> TextType]), JObj([type |-> FigureType])}
    \cup {FigurePart(b) : b \in Boxes}

\* Items that violate the schema: null, a text part whose content is a number.
OddParts == {JNull, TextPart(JNum(5))}

Parts == SchemaParts \cup OddParts

\* Parsed values whose top-level parts field is missing or is no list.
NoPartsValues ==
    {JNull, JNum(0), JNum(5), JStr(<<>>), JStr(PlainContent), JArr(<<>>), JObj(NoFields)}
    \cup {JObj([parts |-> v]) : v \in {JNull, JNum(5), JStr(PlainContent), JObj(NoFields)}}

PartsValues == {JObj([parts |-> JArr(ps)]) : ps \in SeqsUpTo(Parts, MaxParts)}

\* Raw response texts, token by token: fence markers, whitespace, junk and a few
\* JSON values in any order.
TextAlphabet ==
    {Ch("<ticks>"), Ch("json"), Ch(" "), Ch("x"),
     Js(JNull), Js(JObj(NoFields)), Js(JObj([parts |-> JArr(<<TextPart(JStr(PlainContent))>>)]))}

ResponseTexts ==
    SeqsUpTo(TextAlphabet, MaxText)
    \cup {<<Js(v)>> : v \in NoPartsValues \cup PartsValues}

Backends == {[kind |-> "error"]} \cup {[kind |-> "text", text |-> t] : t \in ResponseTexts}

\* Page rasters: a good one, one the browser cannot decode, one for which no
\* drawing context can be had.
Images ==
    {GoodImage, [GoodImage EXCEPT !.decodable = FALSE], [GoodImage EXCEPT !.context = FALSE]}

\* The calls tried: with the API key set, every answer of the backend for every
\* raster; without it, where the backend is never asked, two of them.
OcrCalls ==
    {[step |-> "called", hasKey |-> TRUE, backend |-> b, image |-> i, result |-> Idle] :
        b \in Backends, i \in Images}
    \cup {[step |-> "called", hasKey |-> FALSE, backend |-> b, image |-> GoodImage, result |-> Idle] :
        b \in {[kind |-> "error"], [kind |-> "text", text |-> <<Js(JObj(NoFields))>>]}}

OcrInit ==
    /\ ocrCall \in OcrCalls
    /\ normCall = Idle /\ docxImage = Idle /\ exportCall = Idle
    /\ AppStart /\ apiKey = TRUE

TranscribeSettles ==
    /\ ocrCall.step = "called"
    /\ ocrCall' = [ocrCall EXCEPT
                     !.step = "settled",
                     !.result = TranscribeImage(ocrCall.hasKey, ocrCall.backend, ocrCall.image)]
    /\ UNCHANGED <<appVars, normCall, docxImage, exportCall>>

OcrNext == TranscribeSettles

SpecOcr == OcrInit /\ [][OcrNext]_vars

-----------------------------------------------------------------------------
(* The normaliser applied once and then again to its own result *)

NormInit ==
    /\ normCall \in {[step |-> "input", s |-> s, once |-> <<>>, twice |-> <<>>] :
                        s \in SeqsUpTo(LatexAlphabet, MaxLen)}
    /\ ocrCall = Idle /\ docxImage = Idle /\ exportCall = Idle
    /\ AppStart /\ apiKey = TRUE

NormalizeOnce ==
    /\ normCall.step = "input"
    /\ normCall' = [normCall EXCEPT !.step = "once", !.once = Normalize(normCall.s)]
    /\ UNCHANGED <<appVars, ocrCall, docxImage, exportCall>>

NormalizeTwice ==
    /\ normCall.step = "once"
    /\ normCall' = [normCall EXCEPT !.step = "twice", !.twice = Normalize(normCall.once)]
    /\ UNCHANGED <<appVars, ocrCall, docxImage, exportCall>>

NormNext == NormalizeOnce \/ NormalizeTwice

SpecNormalize == NormInit /\ [][NormNext]_vars

\* C9: the normaliser is idempotent: a second pass over its own result changes
\* nothing, normalize(normalize(s)) = normalize(s), for every string s.
C9_Idempotent == normCall.step = "twice" => normCall.twice = normCall.once

-----------------------------------------------------------------------------
(* Binary exporter: the size an image is inserted at by generateDocx *)

\* const MAX_WIDTH = 600
MAX_WIDTH == 600

\* Heights are rationals num / den: the code computes
\* finalHeight * (MAX_WIDTH / finalWidth) in floating point, which the model
\* keeps exact.
Rational(n, d) == [num |-> n, den |-> d]
Whole(n) == Rational(n, 1)
Times(n, r) == Rational(n * r.num, r.den)

\* getImageDimensions: the natural size of the image, or 400 x 300 when the
\* image does not load.
FallbackDimensions == [width |-> 400, height |-> 300]

GetImageDimensions(img) ==
    IF img.decodable THEN [width |-> img.width, height |-> img.height]
    ELSE FallbackDimensions

\* ScaledSize with the width alone brought down to MAX_WIDTH.
ScaledSize_WidthOnly(dims) ==
    IF dims.width > MAX_WIDTH
    THEN [width |-> MAX_WIDTH, height |-> Whole(dims.height)]
    ELSE [width |-> dims.width, height |-> Whole(dims.height)]

\* finalWidth and finalHeight: scaled down by MAX_WIDTH / width when the image
\* is wider than MAX_WIDTH.
ScaledSize(dims) ==
    IF dims.width > MAX_WIDTH
    THEN LET ratio == Rational(MAX_WIDTH, dims.width)
         IN [width |-> MAX_WIDTH, height |-> Times(dims.height, ratio)]
    ELSE [width |-> dims.width, height |-> Whole(dims.height)]

\* Natural widths and heights of the images tried.
Pixels == {1, 300, 599, 600, 601, 900, 1200}

DocxInit ==
    /\ docxImage \in {[step |-> "line",
                       image |-> [id |-> "figure", decodable |-> d, width |-> w, height |-> h],
                       dims |-> Idle, inserted |-> Idle] :
                         d \in BOOLEAN, w \in Pixels, h \in Pixels}
    /\ normCall = Idle /\ ocrCall = Idle /\ exportCall = Idle
    /\ AppStart /\ apiKey = TRUE

\* const dims = await getImageDimensions(base64Data)
MeasureImage ==
    /\ docxImage.step = "line"
    /\ docxImage' = [docxImage EXCEPT !.step = "measured",
                                      !.dims = GetImageDimensions(docxImage.image)]
    /\ UNCHANGED <<appVars, normCall, ocrCall, exportCall>>

\* new ImageRun({ data, transformation: { width: finalWidth, height: finalHeight } })
InsertImage ==
    /\ docxImage.step = "measured"
    /\ docxImage' = [docxImage EXCEPT !.step = "inserted",
                                      !.inserted = ScaledSize(docxImage.dims)]
    /\ UNCHANGED <<appVars, normCall, ocrCall, exportCall>>

DocxNext == MeasureImage \/ InsertImage

SpecDocx == DocxInit /\ [][DocxNext]_vars

\* An image whose natural size was measured has been inserted.
InsertedMeasured == docxImage.step = "inserted" /\ docxImage.image.decodable

\* C10: an image of natural size (w, h) wider than 600 is inserted 600 wide and
\* h * 600 / w high, so that insertedWidth * h = insertedHeight * w; an image at
\* most 600 wide is inserted at exactly (w, h).
C10_ScalingKeepsAspect ==
    InsertedMeasured =>
        LET w == docxImage.image.width
            h == docxImage.image.height
            ins == docxImage.inserted
        IN IF w > 600
           THEN /\ ins.width = 600
                /\ ins.height.num * w = h * 600 * ins.height.den
                /\ ins.width * h * ins.height.den = ins.height.num * w
           ELSE ins.width = w /\ ins.height.num = h * ins.height.den

\* C10's case: an image 1200 wide has been inserted 600 wide and half as high.
C10_Witness ==
    /\ InsertedMeasured
    /\ docxImage.image.width = 1200 /\ docxImage.image.height = 900
    /\ docxImage.inserted.width = 600
    /\ 2 * docxImage.inserted.height.num = 900 * docxImage.inserted.height.den

-----------------------------------------------------------------------------
(***************************************************************************)
(* App: the component state and its handlers                               *)
(*                                                                         *)
(* Every setState of the code passes an updater of the previous state (or, *)
(* in clearAll, a whole state); React applies them in the order of the     *)
(* calls, and no handler runs between the calls of one continuation, so    *)
(* each action applies its updates as it makes them.                       *)
(***************************************************************************)

ImageFile == [name |-> "scan.png", type |-> "image/png", pages |-> 1]
PdfFile(n) == [name |-> "doc.pdf", type |-> "application/pdf", pages |-> n]

\* The files a user may select: an image, or a PDF of 2..MaxPages pages.
Files == {ImageFile} \cup {PdfFile(n) : n \in 2..MaxPages}

\* What onDrop may be called with: no file (all rejected) or one (multiple: false).
Drops == {<<>>} \cup {<<f>> : f \in Files}

\* images: the base64 raster of the image file, or one per page of the PDF.
Rasters(file) == [k \in 1..file.pages |-> [file |-> file.name, page |-> k]]

\* The raster as the browser decodes it for a crop.
Decoded(raster) == [GoodImage EXCEPT !.id = raster]

\* What the OCR backend may answer in a run: an error, a parts list with one
\* text, the JSON value null.
RunBackends ==
    {[kind |-> "error"],
     [kind |-> "text", text |-> <<Js(JObj([parts |-> JArr(<<TextPart(JStr(PlainContent))>>)]))>>],
     [kind |-> "text", text |-> <<Js(JNull)>>]}

\* What a user may type into a page's textarea.
EditedMarkdowns == {Str(<<"e">>), Str(<<"e", "e">>)}

Page(n, raster, md) == [pageNumber |-> n, imageUrl |-> raster, markdown |-> md]

Init ==
    /\ AppStart /\ apiKey \in BOOLEAN
    /\ normCall = Idle /\ ocrCall = Idle /\ docxImage = Idle /\ exportCall = Idle

\* onDrop: setState(prev => ({ ...prev, files: acceptedFiles, error: null, processedPages: [] }))
OnDrop(acceptedFiles) ==
    /\ files' = acceptedFiles
    /\ error' = NoError
    /\ processedPages' = <<>>
    /\ UNCHANGED <<isProcessing, runs, apiKey, fnVars>>

\* handleProcess up to its first await: the button is disabled while
\* state.files is empty or state.isProcessing; the handler returns when
\* state.files is empty; then it resets the state and starts converting files[0].
HandleProcess ==
    /\ Len(runs) < MaxRuns
    /\ ~(Len(files) = 0 \/ isProcessing)
    /\ Len(files) # 0
    /\ isProcessing' = TRUE
    /\ error' = NoError
    /\ processedPages' = <<>>
    /\ runs' = Append(runs, [file |-> files[1], images |-> <<>>, i |-> 0,
                             results |-> <<>>, pc |-> "converting"])
    /\ UNCHANGED <<files, apiKey, fnVars>>

\* The invocation has returned, from the end of its try block ("done") or of
\* its catch block ("failed"): its locals are gone.
Finished(how) == [file |-> ImageFile, images |-> <<>>, i |-> 0, results |-> <<>>, pc |-> how]

\* The run goes on after results holds i pages: the next transcribeImage call
\* when i < images.length, else setState(prev => ({ ...prev, isProcessing: false })).
LoopFrom(r, run) ==
    IF run.i < Len(run.images)
    THEN /\ runs' = [runs EXCEPT ![r] = [run EXCEPT !.pc = "ocr"]]
         /\ UNCHANGED isProcessing
    ELSE /\ runs' = [runs EXCEPT ![r] = Finished("done")]
         /\ isProcessing' = FALSE

\* catch (error): setState(prev => ({ ...prev, isProcessing: false, error: error.message }))
Caught(r, run, msg) ==
    /\ runs' = [runs EXCEPT ![r] = Finished("failed")]
    /\ isProcessing' = FALSE
    /\ error' = Error(msg)

\* convertPdfToImages or blobToBase64 resolves: images is set and the loop starts.
ConvertDone(r) ==
    /\ r \in DOMAIN runs /\ runs[r].pc = "converting"
    /\ LoopFrom(r, [runs[r] EXCEPT !.images = Rasters(runs[r].file)])
    /\ UNCHANGED <<files, processedPages, error, apiKey, fnVars>>

\* convertPdfToImages or blobToBase64 rejects (a corrupt PDF, a read error).
ConvertFails(r) ==
    /\ r \in DOMAIN runs /\ runs[r].pc = "converting"
    /\ Caught(r, runs[r], "conversion failed")
    /\ UNCHANGED <<files, processedPages, apiKey, fnVars>>

\* OcrSettles with the pages numbered from 0, by the index of the loop.
OcrSettles_ZeroBased(r, backend) ==
    /\ r \in DOMAIN runs /\ runs[r].pc = "ocr"
    /\ LET run == runs[r]
           raster == run.images[run.i + 1]
           outcome == TranscribeImage(apiKey, backend, Decoded(raster))
       IN IF outcome.kind = "ok"
          THEN LET results == Append(run.results, Page(run.i, raster, outcome.md))
               IN /\ processedPages' = results
                  /\ LoopFrom(r, [run EXCEPT !.results = results, !.i = run.i + 1])
                  /\ UNCHANGED error
          ELSE /\ Caught(r, run, outcome.msg)
               /\ UNCHANGED processedPages
    /\ UNCHANGED <<files, apiKey, fnVars>>

\* The awaited transcribeImage(images[i]) settles.  Fulfilled: the page is pushed
\* to results, setState(prev => ({ ...prev, processedPages: [...results] })), and
\* the loop goes on.  Rejected: the catch block.
OcrSettles(r, backend) ==
    /\ r \in DOMAIN runs /\ runs[r].pc = "ocr"
    /\ LET run == runs[r]
           raster == run.images[run.i + 1]
           outcome == TranscribeImage(apiKey, backend, Decoded(raster))
       IN IF outcome.kind = "ok"
          THEN LET results == Append(run.results, Page(run.i + 1, raster, outcome.md))
               IN /\ processedPages' = results
                  /\ LoopFrom(r, [run EXCEPT !.results = results, !.i = run.i + 1])
                  /\ UNCHANGED error
          ELSE /\ Caught(r, run, outcome.msg)
               /\ UNCHANGED processedPages
    /\ UNCHANGED <<files, apiKey, fnVars>>

\* handleUpdateMarkdown(index, newMarkdown), from the textarea of a page shown:
\* index (counted from 1 here) is a page of processedPages.
HandleUpdateMarkdown(index, newMarkdown) ==
    /\ index \in 1..Len(processedPages)
    /\ processedPages' = [processedPages EXCEPT ![index].markdown = newMarkdown]
    /\ UNCHANGED <<files, isProcessing, error, runs, apiKey, fnVars>>

\* clearAll, from the button shown while state.files is not empty.
ClearAll ==
    /\ Len(files) > 0
    /\ isProcessing' = FALSE
    /\ files' = <<>>
    /\ processedPages' = <<>>
    /\ error' = NoError
    /\ UNCHANGED <<runs, apiKey, fnVars>>

Next ==
    \/ \E acceptedFiles \in Drops : OnDrop(acceptedFiles)
    \/ HandleProcess
    \/ \E r \in 1..MaxRuns : ConvertDone(r)
    \/ \E r \in 1..MaxRuns : ConvertFails(r)
    \/ \E r \in 1..MaxRuns, backend \in RunBackends : OcrSettles(r, backend)
    \/ \E index \in 1..(MaxPages + 1), newMarkdown \in EditedMarkdowns :
          HandleUpdateMarkdown(index, newMarkdown)
    \/ ClearAll

Spec == Init /\ [][Next]_vars

-----------------------------------------------------------------------------
(* Claims about the processing pipeline of App, checked under Spec *)

\* The runs whose transcribeImage call has not settled yet.
Outstanding == {r \in DOMAIN runs : runs[r].pc = "ocr"}

\* In this step run r starts the OCR call for the page after page n.
StartsCallAfter(r, n) ==
    /\ runs[r].pc = "ocr" /\ runs'[r].pc = "ocr"
    /\ runs[r].i + 1 = n /\ runs'[r].i = n

\* C1: pages are processed one at a time, in page order: at most one OCR call is
\* outstanding in any state, and the call for page N+1 is started only once the
\* result of page N is recorded in processedPages; under every interleaving of
\* onDrop, handleProcess, clearAll, handleUpdateMarkdown and the OCR completions.
C1_OnePageAtATime ==
    /\ [](Cardinality(Outstanding) <= 1)
    /\ [][\A r \in DOMAIN runs : \A n \in 1..MaxPages :
            StartsCallAfter(r, n) =>
                /\ Len(processedPages') >= n
                /\ processedPages'[n] = runs'[r].results[n]]_vars

\* In this step the OCR call of run r, for page runs[r].i + 1, fails.
OcrFails(r) == runs[r].pc = "ocr" /\ runs'[r].pc = "failed"

\* C2: when the OCR call for page k of a run fails the run stops (it issues no
\* further call), the message is stored in state.error, isProcessing becomes
\* false and processedPages holds exactly the pages 1..k-1 of the run, in order.
C2_FailureStopsRun ==
    [][\A r \in DOMAIN runs :
        /\ OcrFails(r) =>
              /\ error'.set /\ ~isProcessing'
              /\ Len(processedPages') = runs[r].i
              /\ \A j \in 1..runs[r].i :
                    /\ processedPages'[j].pageNumber = j
                    /\ processedPages'[j].imageUrl = runs[r].images[j]
        /\ runs[r].pc = "failed" => runs'[r] = runs[r]]_vars

\* A step of the pipeline: a conversion or an OCR call of some run settles.
PipelineStep == runs' # runs /\ Len(runs') = Len(runs)

\* C3: the markdown a user typed into page i stays the markdown of page i until
\* the user edits the page again or the Document is cleared: no step of the
\* pipeline (a progressive update for a later page, the end of the run) changes it.
C3_EditIsAuthoritative ==
    [][PipelineStep =>
        \A i \in 1..Len(processedPages) :
            processedPages[i].markdown \in EditedMarkdowns =>
                /\ i <= Len(processedPages')
                /\ processedPages'[i].markdown = processedPages[i].markdown]_vars

\* The runs in flight: those that have not returned yet.
InFlight == {r \in DOMAIN runs : runs[r].pc \in {"converting", "ocr"}}

\* The Document run r was started for has been cleared or replaced since: no
\* file is selected, or another file is, or a later run has been started.
Superseded(r) ==
    \/ files = <<>>
    \/ files # <<>> /\ files[1] # runs[r].file
    \/ r < Len(runs)

\* In this step an awaited conversion or OCR call of run r settles.
Settles(r) == r \in InFlight /\ runs'[r] # runs[r]

\* C14: a run owns its Document: once clearAll or onDrop has cleared or replaced
\* the Document of a run in flight, what that run completes writes no page into
\* processedPages and changes neither isProcessing nor error; and isProcessing
\* is true in exactly the states where a run is in flight.
C14_RunOwnsDocument ==
    /\ [](isProcessing <=> InFlight # {})
    /\ [][\A r \in DOMAIN runs :
            (Superseded(r) /\ Settles(r)) =>
                /\ processedPages' = processedPages
                /\ isProcessing' = isProcessing
                /\ error' = error]_vars

\* The pages are the first ones of a run over file, in order: the page at
\* position k has page number k and the k-th raster of the run as its image.
IsPrefixOf(pages, rasters) ==
    /\ Len(pages) <= Len(rasters)
    /\ \A k \in 1..Len(pages) :
          pages[k].pageNumber = k /\ pages[k].imageUrl = rasters[k]

\* In this step run r records a page in processedPages.
Records(r) == runs[r].pc = "ocr" /\ runs'[r] # runs[r] /\ runs'[r].pc # "failed"

-----------------------------------------------------------------------------
(* Claims about transcribeImage, checked under SpecOcr *)

\* The call has settled after the backend answered with a response text.
Answered ==
    /\ ocrCall.step = "settled" /\ ocrCall.hasKey /\ ocrCall.backend.kind = "text"

ResponseText == ocrCall.backend.text

\* The response is the text of one JSON object whose parts field is a list.
HasPartsList ==
    /\ Answered /\ Len(ResponseText) = 1 /\ ResponseText[1].t = "js"
    /\ ResponseText[1].j.k = "obj" /\ "parts" \in DOMAIN ResponseText[1].j.f
    /\ ResponseText[1].j.f.parts.k = "arr"

PartsList == ResponseText[1].j.f.parts.items

\* C4 as stated: a response text that is not valid JSON comes back unchanged
\* as the page's markdown, and nothing is thrown.
C4_RawTextReturned ==
    (Answered /\ ~JsonParses(ResponseText)) => ocrCall.result = Returned(ResponseText)

\* C4, amended: a response text that is not valid JSON once its enclosing
\* code-fence markers are stripped comes back, fence-stripped, as the page's
\* markdown, and nothing is thrown.
C4_StrippedTextReturned ==
    (Answered /\ ~JsonParses(StripFences(ResponseText)))
        => ocrCall.result = Returned(StripFences(ResponseText))

\* C4's case: a fenced response that is no JSON has been returned without its fence.
C4_Witness ==
    /\ Answered /\ Len(ResponseText) = 4 /\ ~JsonParses(StripFences(ResponseText))
    /\ IsCh(ResponseText[1], "<ticks>") /\ IsCh(ResponseText[Len(ResponseText)], "<ticks>")
    /\ ocrCall.result.kind = "ok" /\ ocrCall.result.md = <<Ch("x")>>

\* The parsed value has no top-level parts list: it is no object, or its parts
\* field is missing, or that field is no list.
LacksPartsList(data) ==
    \/ data.k # "obj"
    \/ "parts" \notin DOMAIN data.f
    \/ data.f.parts.k # "arr"

\* C5: a response that parses as JSON but has no top-level parts list (a value
\* that is no object included) gives the empty markdown, and nothing is thrown.
C5_NoPartsGivesEmpty ==
    (Answered /\ ResponseText # <<>> /\ JsonParses(StripFences(ResponseText))
       /\ LacksPartsList(JsonParse(StripFences(ResponseText))))
        => ocrCall.result = Returned(<<>>)

\* What the part contributes when it can be processed; nothing when it fails.
Contribution(img, part) ==
    IF PartStep(img, part).kind = "ok" THEN PartStep(img, part).md ELSE <<>>

RECURSIVE Contributions(_, _)
Contributions(img, parts) ==
    IF parts = <<>> THEN <<>>
    ELSE Contribution(img, Head(parts)) \o Contributions(img, Tail(parts))

\* C6: whatever part fails (a crop that rejects, a null item, a text part whose
\* content is no string), the call returns and its markdown holds the
\* contributions of all the other parts, those before and those after.
C6_PartFailureIsLocal ==
    HasPartsList => ocrCall.result = Returned(Contributions(ocrCall.image, PartsList))

IsText(part) == part.k = "obj" /\ "type" \in DOMAIN part.f /\ part.f.type = TextType
IsFigure(part) == part.k = "obj" /\ "type" \in DOMAIN part.f /\ part.f.type = FigureType
HasBox(part) == "box_2d" \in DOMAIN part.f
HasContent(part) == "content" \in DOMAIN part.f /\ part.f.content.k = "str"

\* A figure with an invalid box contributes nothing; any other part what the
\* code makes of it.
RECURSIVE ValidBoxContributions(_, _)
ValidBoxContributions(img, parts) ==
    IF parts = <<>> THEN <<>>
    ELSE LET part == Head(parts) IN
         (IF IsFigure(part) /\ HasBox(part) /\ ~BoxIsValid(BoxOf(part.f.box_2d))
          THEN <<>> ELSE Contribution(img, part))
         \o ValidBoxContributions(img, Tail(parts))

SchemaPartsOnly == HasPartsList /\ \A i \in 1..Len(PartsList) : PartsList[i] \in SchemaParts

\* C7: a figure whose box violates 0 <= yMin < yMax <= 1000 or
\* 0 <= xMin < xMax <= 1000 yields no image: it is absent from the markdown, the
\* text parts are present, nothing is thrown.
C7_InvalidBoxRejected ==
    SchemaPartsOnly
        => ocrCall.result = Returned(ValidBoxContributions(ocrCall.image, PartsList))

Separator == <<Ch("\n"), Ch("\n")>>

\* The block of a part as C8 states it (every text part contributes its
\* normalised content and a separator) and as amended (a text part contributes
\* when its content is not empty).
ClaimedBlock(img, part, everyText) ==
    IF IsText(part)
    THEN IF HasContent(part) /\ part.f.content.s # <<>>
         THEN Normalize(part.f.content.s) \o Separator
         ELSE IF everyText THEN Separator ELSE <<>>
    ELSE IF IsFigure(part) /\ HasBox(part)
              /\ CropImage(img, BoxOf(part.f.box_2d)).kind = "resolve"
              /\ CropImage(img, BoxOf(part.f.box_2d)).data # <<>>
    THEN <<Img(CropImage(img, BoxOf(part.f.box_2d)).data)>> \o Separator
    ELSE <<>>

RECURSIVE ClaimedFold(_, _, _)
ClaimedFold(img, parts, everyText) ==
    IF parts = <<>> THEN <<>>
    ELSE ClaimedBlock(img, Head(parts), everyText) \o ClaimedFold(img, Tail(parts), everyText)

\* C8 as stated: for a list of parts of the response schema, the markdown is the
\* in-order concatenation of one block per part, every text part contributing
\* its normalised content and a blank-line separator, every cropped figure its
\* image reference and a blank-line separator.
C8_EveryTextPartABlock ==
    SchemaPartsOnly => ocrCall.result = Returned(ClaimedFold(ocrCall.image, PartsList, TRUE))

\* C8, amended: the same in-order fold, in which a text part contributes a block
\* when its content is a non-empty string and nothing otherwise.
C8_InOrderFold ==
    SchemaPartsOnly => ocrCall.result = Returned(ClaimedFold(ocrCall.image, PartsList, FALSE))

\* C8's case: text, a cropped figure and text again have been folded in order.
C8_Witness ==
    /\ SchemaPartsOnly /\ Len(PartsList) = 3
    /\ PartsList[1] = TextPart(JStr(MathContent))
    /\ PartsList[2] = FigurePart(ValidBox)
    /\ PartsList[3] = TextPart(JStr(PlainContent))
    /\ ocrCall.result.kind = "ok" /\ Len(ocrCall.result.md) = 3 + 2 + 3 + 2 + 1
    /\ ocrCall.result.md[6].t = "img"

-----------------------------------------------------------------------------
(***************************************************************************)
(* Exports of the Document: generateDocx, handleExportDocx and              *)
(* copyToClipboard                                                         *)
(*                                                                         *)
(* Neither export handler calls setState, so the reachable states of App   *)
(* are those of Spec; the exports are started here from states of App that *)
(* hold a Document, with any text a user may have typed into its pages.    *)
(***************************************************************************)

MaxLines == 3      \* most lines of a Document, over all its pages

\* The payload of an image reference: whether atob and ImageRun accept it,
\* whether the browser can load it, and its natural size.
Payload(base64, decodable, width, height) ==
    <<[id |-> "figure", base64 |-> base64, decodable |-> decodable,
       width |-> width, height |-> height]>>

WidePayload == Payload(TRUE, TRUE, 1200, 900)
CorruptPayload == Payload(TRUE, FALSE, 0, 0)
GarbledPayload == Payload(FALSE, FALSE, 0, 0)

\* page.markdown.split('\n')
RECURSIVE Split(_)
Split(md) ==
    LET n == FirstAt(md, "\n", 1) IN
    IF n = 0 THEN <<md>> ELSE <<SubSeq(md, 1, n - 1)>> \o Split(Drop(md, n))

\* line.trim() === ''
IsBlank(line) == \A i \in 1..Len(line) : IsSpace(line[i])

\* line.match(/!\[.*?\]\((data:image\/.*?;base64,(.*?))\)/): the position of the
\* first image reference of the line, 0 for null.
ImageMatch(line) ==
    LET refs == {i \in 1..Len(line) : line[i].t = "img"}
    IN IF refs = {} THEN 0 ELSE CHOOSE i \in refs : \A j \in refs : i <= j

\* imageMatch && imageMatch[2]: there is a match and its payload is not empty.
HasImage(line) == ImageMatch(line) # 0 /\ line[ImageMatch(line)].data # <<>>

\* The paragraphs pushed to children.
EmptyParagraph == [el |-> "paragraph", text |-> <<>>]
ImageError == [el |-> "paragraph", text |-> <<Ch("[Image Error]")>>]
ImageParagraph(data, size) ==
    [el |-> "image", data |-> data, width |-> size.width, height |-> size.height]
TextParagraph(line) ==
    [el |-> "text", text |-> line, font |-> "Times New Roman", size |-> 24]
PageBreak == [el |-> "paragraph", pageBreakBefore |-> TRUE]

\* LineElement with an image that cannot be measured given up as an error.
LineElement_NoFallback(line) ==
    IF IsBlank(line) THEN EmptyParagraph
    ELSE IF HasImage(line)
    THEN LET base64Data == line[ImageMatch(line)].data IN
         IF base64Data[1].base64 /\ base64Data[1].decodable
         THEN ImageParagraph(base64Data, ScaledSize(GetImageDimensions(base64Data[1])))
         ELSE ImageError
    ELSE TextParagraph(line)

\* What one iteration of the loop over the lines pushes: the image is measured
\* (or given the fallback size), scaled, decoded and embedded; an error of atob
\* or ImageRun is caught and the placeholder is pushed instead.
LineElement(line) ==
    IF IsBlank(line) THEN EmptyParagraph
    ELSE IF HasImage(line)
    THEN LET base64Data == line[ImageMatch(line)].data IN
         IF base64Data[1].base64
         THEN ImageParagraph(base64Data, ScaledSize(GetImageDimensions(base64Data[1])))
         ELSE ImageError
    ELSE TextParagraph(line)

\* for (const line of lines) { ... } and the page break pushed after it.
PageChildren(page) ==
    LET lines == Split(page.markdown)
    IN [i \in 1..Len(lines) |-> LineElement(lines[i])] \o <<PageBreak>>

\* Children with a page break between the pages and none after the last.
RECURSIVE Children_BreakBetween(_)
Children_BreakBetween(pages) ==
    IF pages = <<>> THEN <<>>
    ELSE IF Len(pages) = 1
    THEN SubSeq(PageChildren(pages[1]), 1, Len(PageChildren(pages[1])) - 1)
    ELSE PageChildren(Head(pages)) \o Children_BreakBetween(Tail(pages))

\* for (const page of pages) { ... }: the children of the document's section.
RECURSIVE Children(_)
Children(pages) ==
    IF pages = <<>> THEN <<>>
    ELSE PageChildren(Head(pages)) \o Children(Tail(pages))

\* The promise of generateDocx: the blob of the document built from children,
\* or the error of Packer.toBlob (packs tells which).
GenerateDocx(pages, packs) ==
    IF packs THEN [kind |-> "resolve", children |-> Children(pages)]
    ELSE [kind |-> "reject"]

\* pages.map(p => p.markdown).join('\n\n'): the text/plain item of the clipboard.
RECURSIVE PlainText(_)
PlainText(pages) ==
    IF pages = <<>> THEN <<>>
    ELSE IF Len(pages) = 1 THEN pages[1].markdown
    ELSE pages[1].markdown \o <<Ch("\n"), Ch("\n")>> \o PlainText(Tail(pages))

DocxFailed == "Error generating DOCX"
Copied == "Copied to clipboard! Paste into Word and use MathType > Toggle TeX."
CopyFailed == "Failed to copy to clipboard. Permission denied or browser not supported."

\* The lines a page may hold: empty, blank, text, and references to an image
\* wider than MAX_WIDTH, to one the browser cannot load, to one whose payload
\* is no base64, and to one with an empty payload.
LineKinds ==
    {<<>>, <<Ch(" ")>>, <<Ch("x")>>, <<Img(WidePayload)>>, <<Img(CorruptPayload)>>,
     <<Img(GarbledPayload)>>, <<Img(<<>>)>>}

\* lines.join('\n'), for at least one line.
RECURSIVE Join(_)
Join(lines) ==
    IF Len(lines) = 1 THEN lines[1]
    ELSE lines[1] \o <<Ch("\n")>> \o Join(Tail(lines))

\* The markdown of the pages that hold the lines from line from on, a page
\* ending after each line of cuts.
RECURSIVE Markdowns(_, _, _)
Markdowns(lines, cuts, from) ==
    LET later == {c \in cuts : c >= from} IN
    IF later = {} THEN <<Join(SubSeq(lines, from, Len(lines)))>>
    ELSE LET c == CHOOSE c \in later : \A d \in later : c <= d
         IN <<Join(SubSeq(lines, from, c))>> \o Markdowns(lines, cuts, c + 1)

\* The markdown of the pages of the Documents exported: one to most lines
\* spread over one to MaxPages pages.
ExportedMarkdowns(most) ==
    UNION {{Markdowns(lines, cuts, 1) :
                cuts \in {c \in SUBSET (1..(Len(lines) - 1)) : Cardinality(c) < MaxPages}} :
           lines \in SeqsUpTo(LineKinds, most) \ {<<>>}}

\* The Document a run over file has built once its pages hold the markdowns mds.
DocumentOf(file, mds) == [k \in 1..Len(mds) |-> Page(k, Rasters(file)[k], mds[k])]

\* The file whose run gave n pages and ended, and one whose run gives more.
Selected(n) == IF n = 1 THEN ImageFile ELSE PdfFile(n)
Longer(n) == PdfFile(n + 1)

\* States of App that hold a Document of the markdowns mds: after a run that
\* ended; and, for a file of more pages, after a run that failed on the next
\* page and during a run whose next OCR call is outstanding.
AfterRun(mds) ==
    [files |-> <<Selected(Len(mds))>>, isProcessing |-> FALSE,
     processedPages |-> DocumentOf(Selected(Len(mds)), mds), error |-> NoError,
     runs |-> <<Finished("done")>>]

AfterFailure(mds) ==
    [files |-> <<Longer(Len(mds))>>, isProcessing |-> FALSE,
     processedPages |-> DocumentOf(Longer(Len(mds)), mds),
     error |-> Error("Failed to process image"),
     runs |-> <<Finished("failed")>>]

DuringRun(mds) ==
    [files |-> <<Longer(Len(mds))>>, isProcessing |-> TRUE,
     processedPages |-> DocumentOf(Longer(Len(mds)), mds), error |-> NoError,
     runs |-> <<[file |-> Longer(Len(mds)), images |-> Rasters(Longer(Len(mds))),
                 i |-> Len(mds),
                 results |-> DocumentOf(Longer(Len(mds)), [k \in 1..Len(mds) |-> <<>>]),
                 pc |-> "ocr"]>>]

ExportStarts(mds) ==
    {AfterRun(mds)}
    \cup (IF Len(mds) < MaxPages THEN {AfterFailure(mds), DuringRun(mds)} ELSE {})

ExportInit ==
    /\ \/ AppStart
       \/ \E mds \in ExportedMarkdowns(MaxLines) : \E start \in ExportStarts(mds) :
            /\ files = start.files /\ isProcessing = start.isProcessing
            /\ processedPages = start.processedPages /\ error = start.error
            /\ runs = start.runs
    /\ apiKey = TRUE
    /\ normCall = Idle /\ ocrCall = Idle /\ docxImage = Idle
    /\ exportCall = Idle

\* handleExportDocx up to its await: it returns when state.processedPages is
\* empty, else calls generateDocx on the pages of the state it was rendered with.
HandleExportDocx(packs) ==
    /\ exportCall = Idle
    /\ Len(processedPages) # 0
    /\ exportCall' = [step |-> "generating", pages |-> processedPages, packs |-> packs]
    /\ UNCHANGED <<appVars, normCall, ocrCall, docxImage>>

\* ExportDocxSettles with the error of generateDocx stored as the error of the state.
ExportDocxSettles_SetsError ==
    /\ exportCall.step = "generating"
    /\ LET blob == GenerateDocx(exportCall.pages, exportCall.packs) IN
       IF blob.kind = "resolve"
       THEN /\ exportCall' = [step |-> "downloaded", pages |-> exportCall.pages,
                              children |-> blob.children]
            /\ UNCHANGED error
       ELSE /\ exportCall' = [step |-> "alerted", pages |-> exportCall.pages,
                              message |-> DocxFailed]
            /\ error' = Error(DocxFailed)
    /\ UNCHANGED <<files, isProcessing, processedPages, runs, apiKey,
                   normCall, ocrCall, docxImage>>

\* The awaited generateDocx settles: the blob is downloaded through a link, or
\* alert("Error generating DOCX").
ExportDocxSettles ==
    /\ exportCall.step = "generating"
    /\ LET blob == GenerateDocx(exportCall.pages, exportCall.packs) IN
       IF blob.kind = "resolve"
       THEN exportCall' = [step |-> "downloaded", pages |-> exportCall.pages,
                           children |-> blob.children]
       ELSE exportCall' = [step |-> "alerted", pages |-> exportCall.pages,
                           message |-> DocxFailed]
    /\ UNCHANGED <<appVars, normCall, ocrCall, docxImage>>

\* copyToClipboard(pages) up to its await of navigator.clipboard.write.
CopyToClipboard(writes) ==
    /\ exportCall = Idle
    /\ exportCall' = [step |-> "writing", pages |-> processedPages, writes |-> writes]
    /\ UNCHANGED <<appVars, normCall, ocrCall, docxImage>>

\* The clipboard write settles, or clipboard access throws: one of the two alerts.
ClipboardSettles ==
    /\ exportCall.step = "writing"
    /\ IF exportCall.writes
       THEN exportCall' = [step |-> "alerted", pages |-> exportCall.pages,
                           message |-> Copied, plainText |-> PlainText(exportCall.pages)]
       ELSE exportCall' = [step |-> "alerted", pages |-> exportCall.pages,
                           message |-> CopyFailed]
    /\ UNCHANGED <<appVars, normCall, ocrCall, docxImage>>

ExportNext ==
    \/ \E packs \in BOOLEAN : HandleExportDocx(packs)
    \/ ExportDocxSettles
    \/ \E writes \in BOOLEAN : CopyToClipboard(writes)
    \/ ClipboardSettles

SpecExport == ExportInit /\ [][ExportNext]_vars

-----------------------------------------------------------------------------
(* Claims about the exports, checked under SpecExport *)

\* The binary export has ended with a download of the document built.
Exported == exportCall.step = "downloaded"

\* What the Document asks the document built to hold, in order: each line of
\* each page, and a break after each page.
RECURSIVE Layout(_)
Layout(pages) ==
    IF pages = <<>> THEN <<>>
    ELSE [i \in 1..Len(Split(Head(pages).markdown)) |->
             [slot |-> "line", line |-> Split(Head(pages).markdown)[i]]]
         \o <<[slot |-> "break"]>> \o Layout(Tail(pages))

IsReferenceLine(line) == \E i \in 1..Len(line) : line[i].t = "img"

FirstPayload(line) == line[ImageMatch(line)].data

IsEmbedded(el, line) == el.el = "image" /\ el.data = FirstPayload(line)

IsTextOf(el, line) == el.el = "text" /\ el.text = line

\* The element el is what the slot asks for.  With everyReference, every
\* image-reference line asks for an embedded image; without it, a reference
\* whose payload is empty asks for a text paragraph of the line and one whose
\* payload cannot be decoded or embedded asks for the placeholder paragraph.
Fills(el, slot, everyReference) ==
    IF slot.slot = "break" THEN el = PageBreak
    ELSE IF IsBlank(slot.line) THEN el = EmptyParagraph
    ELSE IF IsReferenceLine(slot.line)
    THEN IF everyReference THEN IsEmbedded(el, slot.line)
         ELSE IF FirstPayload(slot.line) = <<>> THEN IsTextOf(el, slot.line)
         ELSE IF FirstPayload(slot.line)[1].base64 THEN IsEmbedded(el, slot.line)
         ELSE el = ImageError
    ELSE IsTextOf(el, slot.line)

FillsLayout(children, pages, everyReference) ==
    /\ Len(children) = Len(Layout(pages))
    /\ \A i \in 1..Len(children) : Fills(children[i], Layout(pages)[i], everyReference)

PageBreaks(children) == {i \in 1..Len(children) : children[i] = PageBreak}
EmbeddedImages(children) == {i \in 1..Len(children) : children[i].el = "image"}

\* C11 as stated: the document built holds the pages' content in page order,
\* exactly one page break after each page's content (n in all, the last page
\* included), one embedded image per image-reference line, one empty paragraph
\* per blank line and one text paragraph per other line, in line order.
C11_ImagePerReferenceLine ==
    Exported =>
        /\ FillsLayout(exportCall.children, exportCall.pages, TRUE)
        /\ Cardinality(PageBreaks(exportCall.children)) = Len(exportCall.pages)

\* C11, amended: the same layout, in which an image-reference line gives one
\* embedded image when its payload is not empty and can be decoded and
\* embedded, the placeholder paragraph when its payload cannot be decoded or
\* embedded, and a text paragraph when its payload is empty.
C11_LinesInOrder ==
    Exported =>
        /\ FillsLayout(exportCall.children, exportCall.pages, FALSE)
        /\ Cardinality(PageBreaks(exportCall.children)) = Len(exportCall.pages)

\* C11's case: the two-page Document (page 1 text only, page 2 one text then one
\* figure) has been exported with exactly two page breaks and one embedded image.
C11_Witness ==
    /\ Exported /\ Len(exportCall.pages) = 2
    /\ exportCall.pages[1].markdown = <<Ch("x")>>
    /\ exportCall.pages[2].markdown = <<Ch("x"), Ch("\n"), Img(WidePayload)>>
    /\ Cardinality(PageBreaks(exportCall.children)) = 2
    /\ Cardinality(EmbeddedImages(exportCall.children)) = 1
    /\ exportCall.children[4].el = "image" /\ exportCall.children[5] = PageBreak

\* The image of the line cannot be measured, but can be decoded and embedded.
MeasuringFails(line) ==
    /\ IsReferenceLine(line) /\ FirstPayload(line) # <<>>
    /\ FirstPayload(line)[1].base64 /\ ~FirstPayload(line)[1].decodable

\* The image of the line cannot be decoded or embedded.
EmbeddingFails(line) ==
    /\ IsReferenceLine(line) /\ FirstPayload(line) # <<>>
    /\ ~FirstPayload(line)[1].base64

\* The document holds one element per line and per page break of the Document;
\* an image that could not be measured is embedded at 400 x 300, one that could
\* not be decoded or embedded is the placeholder, and every other line and page
\* break is there as in a Document without image failures.
ImageFailuresLocal(children, pages) ==
    /\ Len(children) = Len(Layout(pages))
    /\ \A i \in 1..Len(children) :
          LET slot == Layout(pages)[i] IN
          IF slot.slot = "line" /\ MeasuringFails(slot.line)
          THEN /\ IsEmbedded(children[i], slot.line)
               /\ children[i].width = 400 /\ children[i].height = Whole(300)
          ELSE IF slot.slot = "line" /\ EmbeddingFails(slot.line)
          THEN children[i] = ImageError
          ELSE Fills(children[i], slot, FALSE)

\* C12: image failures of the binary export are local: an image that cannot be
\* measured is inserted at the fallback size 400 x 300, an image that cannot be
\* decoded or embedded gives exactly one placeholder paragraph in its position,
\* every other line of every page is exported, and generateDocx does not fail.
C12_ImageFailureIsLocal ==
    [][(exportCall.step = "generating" /\ exportCall.packs) =>
          /\ exportCall'.step = "downloaded"
          /\ ImageFailuresLocal(exportCall'.children, exportCall.pages)]_vars

\* C12's case: a page with an image that cannot be measured, one that cannot be
\* decoded and a line of text has been exported: the image at 400 x 300, the
\* placeholder, the text and the page break.
C12_Witness ==
    /\ Exported /\ Len(exportCall.pages) = 1
    /\ Split(exportCall.pages[1].markdown)
         = <<(<<Img(CorruptPayload)>>), (<<Img(GarbledPayload)>>), (<<Ch("x")>>)>>
    /\ Len(exportCall.children) = 4
    /\ exportCall.children[1].el = "image" /\ exportCall.children[1].width = 400
    /\ exportCall.children[2] = ImageError
    /\ exportCall.children[3].el = "text"

\* In this step an export starts or settles.
ExportStep == exportCall' # exportCall

\* In this step an export fails: generateDocx rejects, or the clipboard write does.
ExportFails ==
    \/ exportCall.step = "generating" /\ exportCall'.step = "alerted"
    \/ exportCall.step = "writing" /\ ~exportCall.writes /\ exportCall'.step = "alerted"

\* C13: no export changes the Document in memory: whether copyToClipboard or
\* handleExportDocx succeeds or fails, processedPages, files, error and
\* isProcessing of the state are left as they were, and a failure is shown in
\* an alert of its own and not stored in state.error.
C13_ExportLeavesDocument ==
    [][ExportStep =>
          /\ processedPages' = processedPages /\ files' = files
          /\ error' = error /\ isProcessing' = isProcessing
          /\ ExportFails => exportCall'.message \in {DocxFailed, CopyFailed}]_vars

\* C13's case: the binary export of a Document whose run had failed has failed
\* too: the alert is shown, the pages and the error of the run are as before.
C13_Witness ==
    /\ exportCall.step = "alerted" /\ exportCall.message = DocxFailed
    /\ error = Error("Failed to process image")
    /\ processedPages = exportCall.pages /\ Len(processedPages) > 0
    /\ ~isProcessing

====
